---------------------------- MODULE Spec2Model ----------------------------
(***************************************************************************)
(* The Lorenz-96 notebooks: the reduced single-scale "GCM" integrators     *)
(* GCM and GCMs of presentation-model-setup.ipynb, the err() comparison,   *)
(* and the two-scale L96 model they are compared against.                  *)
(*                                                                         *)
(* Numbers: the code works on float64.  The model runs the same arithmetic *)
(* on the integer-valued floats, where float64 is exact (every value stays *)
(* far below 2^53): X0, F, dt, the polynomial coefficients, stoch and phi  *)
(* are drawn from small sets of integers.  NaN is a sentinel.              *)
(***************************************************************************)
EXTENDS Integers, Sequences, FiniteSets, TLC

(* ------------------------------ state --------------------------------- *)
VARIABLES
    pc,     \* "idle": between calls; "loop": in the for loop; "break": left it
            \* by break; "raised": the call raised
    heap,   \* the arrays and lists that are passed by reference:
            \*   WX: the caller's array given as X0, loc: the array the local
            \*   name X was last bound to, p: the caller's list given as param
    rng,    \* state of the global np.random generator
    args,   \* arguments of the call in progress (X0, seed: their values at
            \*   the call)
    loc,    \* locals of the call in progress: X (a reference), ek, n, hist, time
    out,    \* the (hist, time) pairs returned so far, in order
    W,      \* the L96 object: its fast state Y and its parameters (its slow
            \*   state W.X is the array heap.WX); setX, setY, fresh: what
            \*   set_state was last given, and whether nothing ran since
    tr,     \* what the last W.run(si, T) returned
    fr,     \* what the last integrate_L96_2t(...) returned
    ev      \* what the last err(X, Xtrue) returned

gvars == <<pc, heap, rng, args, loc, out>>
lvars == <<W, tr, fr, ev>>
vars == <<pc, heap, rng, args, loc, out, W, tr, fr, ev>>

(* ------------------------------ bounds -------------------------------- *)
K == 4
J == 2
MaxNt == 3
MaxCalls == 2

(* ------------------------- program constants -------------------------- *)
Threshold == 1000
NaN == -999999999

Idx == 0 .. (K - 1)

Abs(x) == IF x < 0 THEN -x ELSE x

(* ------------------------- input domains ------------------------------ *)
Uniform(c) == [k \in Idx |-> c]
Ramp == [k \in Idx |-> k - 1]
Spike == [k \in Idx |-> IF k = K - 1 THEN 3 ELSE IF k = 0 THEN 1 ELSE 0]
BigIC == Uniform(1000000)

ICs == {Uniform(0), Uniform(18), Ramp, Spike, BigIC}
FVals == {1, 18}
DtVals == {-1, 0, 1, 2}
NtVals == (-1) .. MaxNt
ZeroParams == {<<0>>, <<0, 0>>, <<0, 0, 0>>}
Params == ZeroParams \cup {<<1, 0>>, <<0, 1>>}
StochVals == {0, 1}
PhiVals == {0, 1}
Seeds == {0, 5}

(* ----------------------- numpy helpers -------------------------------- *)
RECURSIVE Horner(_, _, _)
Horner(p, x, y) ==
    IF p = <<>> THEN y ELSE Horner(Tail(p), x, y * x + Head(p))

PolyvalBiased(p, X) == [k \in Idx |-> Horner(p, X[k], 0) + 1]

\* np.polyval(p, X): y = zeros_like(X); for pv in p: y = y * X + pv
Polyval(p, X) == [k \in Idx |-> Horner(p, X[k], 0)]

RECURSIVE MaxOver(_, _)
MaxOver(X, k) ==
    IF k = 0 THEN Abs(X[0])
    ELSE LET m == MaxOver(X, k - 1)
         IN IF Abs(X[k]) > m THEN Abs(X[k]) ELSE m

\* np.abs(X).max()
AbsMax(X) == MaxOver(X, K - 1)

ISqrt(v) == CHOOSE r \in 0 .. v : r * r = v

\* The global generator behind np.random: a hidden state that every draw
\* advances (a small full-period congruential generator stands for it).
RngNext(r) == (5 * r + 3) % 16

RECURSIVE RngAdvance(_, _)
RngAdvance(r, cnt) == IF cnt = 0 THEN r ELSE RngAdvance(RngNext(r), cnt - 1)

RandnUnseeded(r) == [k \in Idx |-> ((Len(out) + k) % 3) - 1]

\* np.random.randn(X.size): K draws, each from the state the one before left
Randn(r) == [k \in Idx |-> (RngAdvance(r, k + 1) % 3) - 1]

(* ----------------------- the slow-variable stencil -------------------- *)
WrapClamp(i) == IF i < 0 THEN 0 ELSE IF i > K - 1 THEN K - 1 ELSE i

\* circular neighbourhood of the K slow variables
Wrap(i) == i % K

L96_eq1_xdotSignError(X, F) ==
    [k \in Idx |->
        (0 - X[Wrap(k - 1)]) * (X[Wrap(k - 2)] + X[Wrap(k + 1)]) - X[k] + F]

\* dX_k/dt = -X[k-1] (X[k-2] - X[k+1]) - X[k] + F
L96_eq1_xdot(X, F) ==
    [k \in Idx |->
        (0 - X[Wrap(k - 1)]) * (X[Wrap(k - 2)] - X[Wrap(k + 1)]) - X[k] + F]

(* ----------------------- one loop iteration --------------------------- *)
\* X + dt * (L96_eq1_xdot(X, F) - np.polyval(param, X))
GCMUpdate(X, F, dt, param) ==
    LET xd == L96_eq1_xdot(X, F)
        pv == Polyval(param, X)
    IN [k \in Idx |-> X[k] + dt * (xd[k] - pv[k])]

RedNoiseUnscaled(ek, phi, stoch, z) ==
    [k \in Idx |-> phi * ek[k] + ISqrt((1 - phi) * (1 + phi)) * z[k]]

\* ek = phi * ek + stoch * sqrt((1 - phi) * (1 + phi)) * randn(X.size)
RedNoise(ek, phi, stoch, z) ==
    [k \in Idx |-> phi * ek[k] + stoch * ISqrt((1 - phi) * (1 + phi)) * z[k]]

\* X + dt * (L96_eq1_xdot(X, F) - np.polyval(param, X) + stoch * ek)
GCMsUpdate(X, F, dt, param, stoch, ek) ==
    LET xd == L96_eq1_xdot(X, F)
        pv == Polyval(param, X)
    IN [k \in Idx |-> X[k] + dt * (xd[k] - pv[k] + stoch * ek[k])]

GuardTripsMin(X) == \A k \in Idx : Abs(X[k]) > Threshold

\* if np.abs(X).max() > 1e3: break
GuardTrips(X) == AbsMax(X) > Threshold

\* the reduced single-scale step with the coupling term given as an array
ReducedStep(X, F, dt, U) ==
    LET xd == L96_eq1_xdot(X, F)
    IN [k \in Idx |-> X[k] + dt * (xd[k] - U[k])]

\* the run of the reduced model with the coupling term equal to 0
RECURSIVE RefRun(_, _, _, _, _)
RefRun(X, F, dt, nt, acc) ==
    IF acc.n = nt THEN acc
    ELSE LET X1 == ReducedStep(X, F, dt, Uniform(0))
         IN IF GuardTrips(X1) THEN [acc EXCEPT !.tripped = TRUE]
            ELSE RefRun(X1, F, dt, nt,
                        [acc EXCEPT !.hist[acc.n] = X1,
                                    !.time[acc.n] = dt * (acc.n + 1),
                                    !.n = acc.n + 1])

AssignInPlaceX0(ref) == "WX"

\* X = X + ... builds a new array and rebinds the local name X to it
AssignTarget(ref) == "loc"

NaNRow == [k \in Idx |-> NaN]

\* the array f over 0 .. n with every entry computed once
RECURSIVE Explicit(_, _)
Explicit(f, n) == IF n = 0 THEN (0 :> f[0]) ELSE Explicit(f, n - 1) @@ (n :> f[n])

(* ----------------------- the two-scale model -------------------------- *)
YIdx == 0 .. (J * K - 1)
YZero == [i \in YIdx |-> 0]
YWave == [i \in YIdx |-> i % 3]
NaNRowY == [i \in YIdx |-> NaN]

WrapYBlock(i, d) == (i \div J) * J + (((i % J) + d) % J)

\* circular neighbourhood of the J*K fast variables in their flattened
\* (k-major) ordering: neighbour d of flat index i
WrapY(i, d) == (i + d) % (J * K)

\* (h c / b), for parameters that make it a whole number
HCB(h, b, c) == (h * c) \div b

RECURSIVE SumBlock(_, _, _)
SumBlock(Y, k, j) ==
    IF j = 0 THEN Y[k * J] ELSE Y[k * J + j] + SumBlock(Y, k, j - 1)

\* dX_k/dt    = -X[k-1] (X[k-2] - X[k+1]) - X[k] + F - (h c / b) sum_j Y[j,k]
\* dY_j,k/dt  = -c b Y[j+1,k] (Y[j+2,k] - Y[j-1,k]) - c Y[j,k] + (h c / b) X[k]
L96_2t_xdot_ydot(X, Y, F, h, b, c) ==
    LET xd == L96_eq1_xdot(X, F)
    IN [Xdot |-> Explicit([k \in Idx |->
                    xd[k] - HCB(h, b, c) * SumBlock(Y, k, J - 1)], K - 1),
        Ydot |-> Explicit([i \in YIdx |->
                    (0 - c * b * Y[WrapY(i, 1)]) * (Y[WrapY(i, 2)] - Y[WrapY(i, -1)])
                    - c * Y[i] + HCB(h, b, c) * X[i \div J]], J * K - 1)]

\* one explicit step of size dt of the coupled system
TwoScaleStep(X, Y, F, h, b, c, dt) ==
    LET d == L96_2t_xdot_ydot(X, Y, F, h, b, c)
    IN [X |-> Explicit([k \in Idx |-> X[k] + dt * d.Xdot[k]], K - 1),
        Y |-> Explicit([i \in YIdx |-> Y[i] + dt * d.Ydot[i]], J * K - 1)]

NoTraj == [status |-> "none", X |-> <<>>, Y |-> <<>>, t |-> <<>>, m |-> 0,
           X0 |-> Uniform(0), Y0 |-> YZero, si |-> 0, nt |-> 0,
           F |-> 0, h |-> 0, b |-> 0, c |-> 0, dt |-> 0, chained |-> FALSE,
           T |-> 0]

\* the trajectory buffers: the initial state in slot 0, then nt samples, each
\* marked invalid until it is recorded
EmptyTraj(X0, Y0, si, nt, F, h, b, c, dt) ==
    [status |-> "ok",
     X |-> [n \in 0 .. nt |-> IF n = 0 THEN X0 ELSE NaNRow],
     Y |-> [n \in 0 .. nt |-> IF n = 0 THEN Y0 ELSE NaNRowY],
     t |-> [n \in 0 .. nt |-> IF n = 0 THEN 0 ELSE NaN], m |-> 1,
     X0 |-> X0, Y0 |-> Y0, si |-> si, nt |-> nt,
     F |-> F, h |-> h, b |-> b, c |-> c, dt |-> dt, chained |-> FALSE,
     T |-> 0]

\* advance by dt until the next sample is due (sub steps left) or the guard
\* trips; record a sample every si; stop after nt samples (acc.m counts the
\* slots filled, the initial state included)
RECURSIVE IntegrateLoop(_, _, _, _)
IntegrateLoop(X, Y, sub, acc) ==
    IF acc.m = acc.nt + 1 THEN acc
    ELSE LET s == TwoScaleStep(X, Y, acc.F, acc.h, acc.b, acc.c, acc.dt)
         IN IF GuardTrips(s.X) THEN acc
            ELSE IF sub > 1 THEN IntegrateLoop(s.X, s.Y, sub - 1, acc)
            ELSE IntegrateLoop(s.X, s.Y, acc.si \div acc.dt,
                               [acc EXCEPT !.X[acc.m] = s.X,
                                           !.Y[acc.m] = s.Y,
                                           !.t[acc.m] = acc.si * acc.m,
                                           !.m = acc.m + 1])

ConfigOK(si, nt, dt) == K >= 4 /\ J >= 1 /\ dt > 0 /\ nt >= 1 /\ si > 0 /\ si % dt = 0

\* integrate_L96_2t(X0, Y0, si, nt, F, h, b, c, dt)
Integrate_L96_2t(X0, Y0, si, nt, F, h, b, c, dt) ==
    IF ~ConfigOK(si, nt, dt)
    THEN [NoTraj EXCEPT !.status = "ConfigurationError", !.X0 = X0, !.Y0 = Y0,
                        !.si = si, !.nt = nt, !.F = F, !.h = h, !.b = b, !.c = c,
                        !.dt = dt]
    ELSE IntegrateLoop(X0, Y0, si \div dt,
                       EmptyTraj(X0, Y0, si, nt, F, h, b, c, dt))

RunStepsByDt(si, T, dt) == T \div dt

\* the number of samples of run(si, T): floor(T / si)
RunSteps(si, T, dt) == T \div si

SetStateDropsY(y) == YZero

\* what set_state(X, Y) stores as the fast state
SetStateY(y) == y

(* ----------------------- err ------------------------------------------ *)
NoErr == [status |-> "none", val |-> <<>>, nX |-> 0, nTrue |-> 0]

RowCount(A) == Cardinality(DOMAIN A)

HasNaN(x) == \E k \in Idx : x[k] = NaN

RECURSIVE SumSq(_, _, _)
SumSq(x, y, k) ==
    (x[k] - y[k]) * (x[k] - y[k]) + (IF k = 0 THEN 0 ELSE SumSq(x, y, k - 1))

\* one entry of err: the mean over k of (x - y)^2, kept as the sum of the
\* squares (err = sqrt(sum / K)); NaN when either row holds NaN
ErrEntry(x, y) == IF HasNaN(x) \/ HasNaN(y) THEN NaN ELSE SumSq(x, y, K - 1)

TruthRowsAll(Xtrue) == [s \in 0 .. (RowCount(Xtrue) - 1) |-> Xtrue[s]]

\* Xtrue[1:, :]
TruthRows(Xtrue) == [s \in 0 .. (RowCount(Xtrue) - 2) |-> Xtrue[s + 1]]

\* def err(X, Xtrue): np.sqrt(((X - Xtrue[1:, :]) ** 2).mean(axis=1))
\* numpy broadcasts the two row counts when they agree or one of them is 1
Err(X, Xtrue) ==
    LET T1 == TruthRows(Xtrue)
        n == RowCount(X)
        m == RowCount(T1)
    IN IF n = m \/ n = 1 \/ m = 1
       THEN [status |-> "ok",
             val |-> [s \in 0 .. ((IF n = 1 THEN m ELSE n) - 1) |->
                        ErrEntry(X[IF n = 1 THEN 0 ELSE s],
                                 T1[IF m = 1 THEN 0 ELSE s])],
             nX |-> n, nTrue |-> RowCount(Xtrue)]
       ELSE [status |-> "ValueError", val |-> <<>>,
             nX |-> n, nTrue |-> RowCount(Xtrue)]

NoArgs == [fn |-> "none", F |-> 0, dt |-> 0, nt |-> 0, stoch |-> 0, phi |-> 0,
           X0 |-> Uniform(0), param |-> <<0>>, seed |-> 0]
NoLoc == [X |-> "WX", ek |-> Uniform(0), n |-> 0, hist |-> <<>>, time |-> <<>>]

Init ==
    /\ pc = "idle"
    /\ \E x \in ICs, s \in Seeds :
          /\ heap = [WX |-> x, loc |-> x, p |-> <<0>>]
          /\ rng = s
    /\ args = NoArgs
    /\ loc = NoLoc
    /\ out = <<>>
    /\ W = [Y |-> YZero, F |-> 18, h |-> 1, b |-> 1, c |-> 1, dt |-> 1,
            setX |-> heap.WX, setY |-> YZero, fresh |-> FALSE]
    /\ tr = NoTraj
    /\ fr = NoTraj
    /\ ev = NoErr

(* ------------------------------ calls --------------------------------- *)
\* def GCM(X0, F, dt, nt, param=[0]) / def GCMs(..., stoch=1.0, phi=0.984):
\*   time, hist, X = dt * np.arange(nt), np.zeros((nt, len(X0))) * np.nan, X0.copy()
\*   ek = np.zeros(X.size)
Call(f, F, dt, nt, p, st, ph) ==
    /\ pc = "idle"
    /\ nt >= 0
    /\ heap' = [heap EXCEPT !.loc = heap.WX, !.p = p]
    /\ args' = [fn |-> f, F |-> F, dt |-> dt, nt |-> nt, stoch |-> st, phi |-> ph,
                X0 |-> heap.WX, param |-> p, seed |-> rng]
    /\ loc' = [X |-> "loc", ek |-> Uniform(0), n |-> 0,
               hist |-> [i \in 0 .. (nt - 1) |-> NaNRow],
               time |-> [i \in 0 .. (nt - 1) |-> dt * i]]
    /\ pc' = "loop"
    /\ UNCHANGED <<rng, out, lvars>>

\* np.zeros((nt, len(X0))) with nt < 0 raises ValueError
CallRaises(f, F, dt, nt, p, st, ph) ==
    /\ pc = "idle"
    /\ nt < 0
    /\ heap' = [heap EXCEPT !.p = p]
    /\ args' = [fn |-> f, F |-> F, dt |-> dt, nt |-> nt, stoch |-> st, phi |-> ph,
                X0 |-> heap.WX, param |-> p, seed |-> rng]
    /\ loc' = NoLoc
    /\ pc' = "raised"
    /\ UNCHANGED <<rng, out, lvars>>

\* the noise drawn and the state computed by iteration n of the loop
NextEk == IF args.fn = "GCMs"
          THEN RedNoise(loc.ek, args.phi, args.stoch, Randn(rng))
          ELSE loc.ek

NextX == IF args.fn = "GCMs"
         THEN GCMsUpdate(heap[loc.X], args.F, args.dt, heap.p, args.stoch, NextEk)
         ELSE GCMUpdate(heap[loc.X], args.F, args.dt, heap.p)

Iterate ==
    /\ pc = "loop"
    /\ loc.n < args.nt
    /\ rng' = IF args.fn = "GCMs" THEN RngAdvance(rng, K) ELSE rng
    /\ heap' = [heap EXCEPT ![AssignTarget(loc.X)] = NextX]
    /\ UNCHANGED <<args, out, lvars>>

StepBreakContinues ==
    /\ Iterate
    /\ GuardTrips(NextX)
    /\ loc' = [loc EXCEPT !.X = AssignTarget(loc.X), !.ek = NextEk,
                          !.n = loc.n + 1]
    /\ pc' = "loop"

\* the body of the loop when the guard trips: break, nothing recorded
StepBreak ==
    /\ Iterate
    /\ GuardTrips(NextX)
    /\ loc' = [loc EXCEPT !.X = AssignTarget(loc.X), !.ek = NextEk]
    /\ pc' = "break"

StepRecordInitialFirst ==
    /\ Iterate
    /\ ~GuardTrips(NextX)
    /\ loc' = [loc EXCEPT !.X = AssignTarget(loc.X), !.ek = NextEk,
                          !.hist[loc.n] = heap[loc.X],
                          !.time[loc.n] = args.dt * loc.n,
                          !.n = loc.n + 1]
    /\ pc' = "loop"

\* the body of the loop otherwise: hist[n], time[n] = X, dt * (n + 1)
StepRecord ==
    /\ Iterate
    /\ ~GuardTrips(NextX)
    /\ loc' = [loc EXCEPT !.X = AssignTarget(loc.X), !.ek = NextEk,
                          !.hist[loc.n] = NextX,
                          !.time[loc.n] = args.dt * (loc.n + 1),
                          !.n = loc.n + 1]
    /\ pc' = "loop"

\* return hist, time
Return ==
    /\ \/ pc = "break"
       \/ pc = "loop" /\ loc.n = args.nt
    /\ out' = Append(out, [args |-> args, hist |-> loc.hist, time |-> loc.time,
                           m |-> loc.n, tripped |-> (pc = "break")])
    /\ pc' = "idle"
    /\ UNCHANGED <<heap, rng, args, loc, lvars>>

\* np.random.seed(s)
Seed(s) ==
    /\ pc = "idle"
    /\ rng # s
    /\ rng' = s
    /\ UNCHANGED <<pc, heap, args, loc, out, lvars>>

CallAny(fvals, dts, nts, ps) ==
    \E F \in fvals, dt \in dts, nt \in nts, p \in ps :
        \/ Call("GCM", F, dt, nt, p, 0, 0)
        \/ CallRaises("GCM", F, dt, nt, p, 0, 0)
        \/ \E st \in StochVals, ph \in PhiVals :
              \/ Call("GCMs", F, dt, nt, p, st, ph)
              \/ CallRaises("GCMs", F, dt, nt, p, st, ph)

\* one call, over the whole input domain
Next ==
    \/ Len(out) = 0 /\ CallAny(FVals, DtVals, NtVals, Params)
    \/ StepBreak
    \/ StepRecord
    \/ Return

Spec == Init /\ [][Next]_vars

(* ----------------- a cell of successive calls ------------------------- *)
SeqICs == {Ramp, Spike, BigIC}
SeqFVals == {18}
SeqDtVals == {1}
SeqNtVals == {MaxNt - 1}
SeqParams == {<<0>>, <<1, 0>>}

InitSeq ==
    /\ Init
    /\ heap.WX \in SeqICs

\* up to MaxCalls calls on the same W.X, np.random.seed between them
NextSeq ==
    \/ Len(out) < MaxCalls /\ CallAny(SeqFVals, SeqDtVals, SeqNtVals, SeqParams)
    \/ StepBreak
    \/ StepRecord
    \/ Return
    \/ \E s \in Seeds : Len(out) < MaxCalls /\ Seed(s)

SpecSeq == InitSeq /\ [][NextSeq]_vars


(* ----------------- the two-scale object and err ----------------------- *)
L96ICs == {Ramp, Spike}
YICs == {YZero, YWave}
L96Params == {[F |-> 1, h |-> 1, b |-> 1, c |-> 1, dt |-> 1],
              [F |-> 1, h |-> 0, b |-> 1, c |-> 1, dt |-> 1],
              [F |-> 1, h |-> 1, b |-> 1, c |-> 1, dt |-> 2]}
SiVals == {1, 2}
TVals == 0 .. MaxNt

\* W = L96(K, J, F=..., dt=...): a fresh instance
InitL96 ==
    /\ pc = "idle"
    /\ \E x \in L96ICs, y \in YICs, q \in L96Params :
          /\ heap = [WX |-> x, loc |-> x, p |-> <<0>>]
          /\ W = [Y |-> y, F |-> q.F, h |-> q.h, b |-> q.b, c |-> q.c, dt |-> q.dt,
                  setX |-> x, setY |-> y, fresh |-> FALSE]
    /\ rng = 0
    /\ args = NoArgs
    /\ loc = NoLoc
    /\ out = <<>>
    /\ tr = NoTraj
    /\ fr = NoTraj
    /\ ev = NoErr

\* W.set_state(X, Y), which returns W
SetState(x, y) ==
    /\ pc = "idle"
    /\ heap' = [heap EXCEPT !.WX = x]
    /\ W' = [W EXCEPT !.Y = SetStateY(y), !.setX = x, !.setY = y, !.fresh = TRUE]
    /\ UNCHANGED <<pc, rng, args, loc, out, tr, fr, ev>>

\* X, Y, t = W.run(si, T), from the state the object holds
Run(si, T) ==
    /\ pc = "idle"
    /\ LET r == Integrate_L96_2t(heap.WX, W.Y, si, RunSteps(si, T, W.dt),
                                 W.F, W.h, W.b, W.c, W.dt)
       IN tr' = [r EXCEPT !.chained = W.fresh, !.T = T]
    /\ W' = [W EXCEPT !.fresh = FALSE]
    /\ UNCHANGED <<pc, heap, rng, args, loc, out, fr, ev>>

\* X, Y, t = integrate_L96_2t(X0, Y0, si, nt, F, h, b, c, dt=dt)
CallIntegrate(x, y, si, nt, q) ==
    /\ pc = "idle"
    /\ fr' = Integrate_L96_2t(x, y, si, nt, q.F, q.h, q.b, q.c, q.dt)
    /\ UNCHANGED <<pc, heap, rng, args, loc, out, W, tr, ev>>

\* err(Xgcm, Xtr) on the history a GCM call returned and the truth run
EvalErr ==
    /\ pc = "idle"
    /\ Len(out) >= 1
    /\ tr.status = "ok"
    /\ ev' = Err(out[Len(out)].hist, tr.X)
    /\ UNCHANGED <<pc, heap, rng, args, loc, out, W, tr, fr>>

\* a fresh instance, set_state, run; and the functional interface
NextL96 ==
    \/ \E x \in L96ICs, y \in YICs :
          tr.status = "none" /\ ~W.fresh /\ SetState(x, y)
    \/ \E si \in SiVals, T \in TVals : tr.status = "none" /\ Run(si, T)
    \/ \E x \in L96ICs, y \in YICs, si \in SiVals, nt \in TVals, q \in L96Params :
          fr.status = "none" /\ CallIntegrate(x, y, si, nt, q)

SpecL96 == InitL96 /\ [][NextL96]_vars

\* the cell that compares a GCM run with the truth run: Xtr = W.run(si, T),
\* Xgcm = GCM(W.X, W.F, dt, nt, param), err(Xgcm, Xtr)
NextErr ==
    \/ \E si \in SiVals, T \in TVals : tr.status = "none" /\ Run(si, T)
    \/ \E nt \in 1 .. MaxNt, p \in SeqParams :
          Len(out) = 0 /\ tr.status = "ok" /\ Call("GCM", W.F, W.dt, nt, p, 0, 0)
    \/ StepBreak
    \/ StepRecord
    \/ Return
    \/ ev.status = "none" /\ EvalErr

SpecErr == InitL96 /\ [][NextErr]_vars

(* ------------------- one call, run to its return ---------------------- *)
LiveDtVals == {1, 2}
LiveNtVals == 0 .. MaxNt

NextLive ==
    \/ \E dt \in LiveDtVals, nt \in LiveNtVals, p \in SeqParams :
          /\ Len(out) = 0
          /\ \/ Call("GCM", 18, dt, nt, p, 0, 0)
             \/ \E st \in StochVals, ph \in PhiVals : Call("GCMs", 18, dt, nt, p, st, ph)
    \/ StepBreak
    \/ StepRecord
    \/ Return

\* the interpreter runs the loop body and the return statement it has reached;
\* nothing obliges the caller to make the call
SpecLive ==
    InitSeq /\ [][NextLive]_vars /\ WF_vars(StepBreak \/ StepRecord \/ Return)

(* --------------- the unforced, uncoupled reduced model ---------------- *)
AdvVals == (-2) .. 2
AdvICs == [Idx -> AdvVals]
AdvDtVals == {1, 2}
AdvNtVals == {1, 2, 3}

InitAdv ==
    /\ pc = "idle"
    /\ \E x \in AdvICs : heap = [WX |-> x, loc |-> x, p |-> <<0>>]
    /\ rng = 0
    /\ args = NoArgs
    /\ loc = NoLoc
    /\ out = <<>>
    /\ W = [Y |-> YZero, F |-> 0, h |-> 0, b |-> 1, c |-> 1, dt |-> 1,
            setX |-> heap.WX, setY |-> YZero, fresh |-> FALSE]
    /\ tr = NoTraj
    /\ fr = NoTraj
    /\ ev = NoErr

\* GCM(X0, 0, dt, nt): F = 0 and the default param = [0], every X0
NextAdv ==
    \/ \E dt \in AdvDtVals, nt \in AdvNtVals :
          Len(out) = 0 /\ Call("GCM", 0, dt, nt, <<0>>, 0, 0)
    \/ StepBreak
    \/ StepRecord
    \/ Return

SpecAdv == InitAdv /\ [][NextAdv]_vars

(* ------------------------------ claims -------------------------------- *)
Results == {out[i] : i \in DOMAIN out}
Slots(r) == 0 .. (r.args.nt - 1)
ValidArgs(a) == a.dt > 0 /\ a.nt >= 1
AllZero(p) == \A i \in DOMAIN p : p[i] = 0

\* C2 (as claimed): after a run with valid parameters, every slot below the
\* index m at which the guard tripped (m = nt when it never did) holds a
\* recorded sample, and every slot from m on is marked invalid, the X snapshot
\* and its time alike.
C2_ValidPrefixInvalidSuffix ==
    \A r \in Results :
        r.args.dt > 0 =>
            \A s \in Slots(r) :
                IF s < r.m
                THEN r.hist[s] # NaNRow /\ r.time[s] = r.args.dt * (s + 1)
                ELSE r.hist[s] = NaNRow /\ r.time[s] = NaN

FirstStepBig(a) ==
    LET c == 1000000
    IN Abs(c + a.dt * (a.F - c - Horner(a.param, c, 0))) > Threshold

PrefixWithinThreshold(r) ==
    \A s \in Slots(r) : s < r.m => \A k \in Idx : Abs(r.hist[s][k]) <= Threshold

\* C3 (as claimed): every run with valid parameters started from X all at 1e6
\* terminates early with fewer samples than requested, and no value of a
\* returned valid prefix exceeds the threshold.
C3_BigICAlwaysStopsEarly ==
    \A r \in Results :
        /\ (r.args.X0 = BigIC /\ ValidArgs(r.args)) => (r.tripped /\ r.m < r.args.nt)
        /\ PrefixWithinThreshold(r)

\* C3 (amended): a GCM run of nt >= 1 steps started from X all at 1e6 stops at
\* its first step, with no valid sample, exactly when the state after that
\* first Euler step, 1e6 + dt (F - 1e6 - P(1e6)), still exceeds the threshold;
\* and no value of any returned valid prefix exceeds the threshold.
C3_BigICStopsWhenFirstStepBig ==
    \A r \in Results :
        /\ (r.args.X0 = BigIC /\ r.args.fn = "GCM" /\ r.args.nt >= 1) =>
               ((r.tripped /\ r.m = 0) <=> FirstStepBig(r.args))
        /\ PrefixWithinThreshold(r)

C3_Witness ==
    \E r \in Results :
        /\ r.args.X0 = BigIC /\ r.args.fn = "GCM" /\ ValidArgs(r.args)
        /\ r.tripped /\ r.m = 0 /\ r.m < r.args.nt
        /\ \A s \in Slots(r) : r.hist[s] = NaNRow

\* C4 (as claimed): a call with a non-positive dt or a non-positive number of
\* steps fails with an error before any step: it never enters the loop and
\* never returns a trajectory.
C4_InvalidFailsFast ==
    (args.fn # "none" /\ (args.dt <= 0 \/ args.nt <= 0)) => pc = "raised"

\* C5: two returned runs of the same function with the same X0, the same
\* parameters and the same state of the random generator at the call have the
\* same hist, the same time and the same index at which the guard tripped.
C5_Deterministic ==
    \A r1, r2 \in Results :
        r1.args = r2.args =>
            /\ r1.hist = r2.hist
            /\ r1.time = r2.time
            /\ r1.m = r2.m
            /\ r1.tripped = r2.tripped

C5_Witness ==
    /\ Len(out) = 2
    /\ out[1].args = out[2].args
    /\ out[1].args.fn = "GCMs" /\ out[1].args.stoch = 1 /\ out[1].args.phi = 0
    /\ out[1].m = 2
    /\ out[1].hist[1] # out[1].hist[0]

\* C6: a GCM run whose polynomial has only zero coefficients (of any length)
\* returns exactly the trajectory of the reduced model run with the coupling
\* term equal to 0.
C6_ZeroPolyIsZeroCoupling ==
    \A r \in Results :
        (r.args.fn = "GCM" /\ AllZero(r.args.param)) =>
            LET a == r.args
                ref == RefRun(a.X0, a.F, a.dt, a.nt,
                              [n |-> 0, tripped |-> FALSE,
                               hist |-> [i \in 0 .. (a.nt - 1) |-> NaNRow],
                               time |-> [i \in 0 .. (a.nt - 1) |-> a.dt * i]])
            IN /\ r.hist = ref.hist
               /\ r.time = ref.time
               /\ r.m = ref.n
               /\ r.tripped = ref.tripped

C6_Witness ==
    \E r \in Results :
        /\ r.args.fn = "GCM" /\ r.args.param = <<0, 0, 0>>
        /\ r.args.X0 = Ramp /\ r.args.dt = 1
        /\ r.m >= 2

RECURSIVE DotUpTo(_, _, _)
DotUpTo(A, B, k) == IF k < 0 THEN 0 ELSE A[k] * B[k] + DotUpTo(A, B, k - 1)
Dot(A, B) == DotUpTo(A, B, K - 1)

\* the advection term alone: the tendency with F = 0, without the damping -X
Advection(X) == LET xd == L96_eq1_xdot(X, 0) IN [k \in Idx |-> xd[k] + X[k]]

UnforcedUncoupled == args.fn = "GCM" /\ args.F = 0 /\ AllZero(args.param)

\* C11: for every X the advection term -X[k-1] (X[k-2] - X[k+1]), indices
\* around the circle, is orthogonal to X: sum over k of X[k] * advection[k]
\* is 0, so it adds nothing to the rate of change of sum(X^2).  In a GCM run
\* with F = 0 and zero coupling the first sample therefore has
\* sum(X1^2) = (1 - dt)^2 sum(X0^2) + dt^2 sum(advection(X0)^2), with no
\* term of first order in the advection.
C11_AdvectionOrthogonalToX ==
    UnforcedUncoupled =>
        LET X == args.X0
            adv == Advection(X)
        IN /\ Dot(X, adv) = 0
           /\ loc.n >= 1 =>
                 Dot(loc.hist[0], loc.hist[0]) =
                     (1 - args.dt) * (1 - args.dt) * Dot(X, X)
                     + args.dt * args.dt * Dot(adv, adv)

C11_Witness ==
    /\ UnforcedUncoupled
    /\ loc.n >= 1
    /\ \E k \in Idx : Advection(args.X0)[k] # 0
    /\ \E k \in Idx : args.X0[k] < 0
    /\ \E k \in Idx : args.X0[k] > 0

\* C12 (as claimed): in GCMs the stochastic component is part of P(X_k), so
\* the first sample is X0 advanced with the tendency
\* -X[k-1] (X[k-2] - X[k+1]) - X[k] + F - (polynomial(X[k]) + e[k]): the
\* polynomial and e_k are subtracted alike.
C12_NoiseEntersWithPolynomialSign ==
    (pc = "loop" /\ args.fn = "GCMs" /\ loc.n = 1) =>
        LET xd == L96_eq1_xdot(args.X0, args.F)
        IN \A k \in Idx :
              loc.hist[0][k] =
                  args.X0[k]
                  + args.dt * (xd[k] - (Horner(args.param, args.X0[k], 0)
                                        + args.stoch * loc.ek[k]))

StepsExecuted == loc.n + (IF pc = "break" THEN 1 ELSE 0)

\* C13: a call of GCM or GCMs with nt >= 0 never raises and executes at most
\* nt steps; a step at which the guard trips leaves the loop, and the only
\* thing done after it is the return of (hist, time) as they stand; and every
\* call that entered the loop returns.
C13_AlwaysReturns ==
    /\ [](args.fn # "none" => (pc # "raised" /\ StepsExecuted <= args.nt))
    /\ [][(pc = "loop" /\ loc.n < args.nt /\ GuardTrips(NextX)) => pc' = "break"]_vars
    /\ [][pc = "break" =>
            /\ pc' = "idle"
            /\ Len(out') = Len(out) + 1
            /\ out'[Len(out')].hist = loc.hist
            /\ out'[Len(out')].time = loc.time
            /\ UNCHANGED <<heap, loc>>]_vars
    /\ (pc = "loop") ~> (pc = "idle" /\ Len(out) >= 1)

C13_Witness ==
    /\ pc = "idle" /\ Len(out) = 1
    /\ out[1].tripped /\ out[1].m >= 1 /\ out[1].m < out[1].args.nt
    /\ out[1].args.fn = "GCMs"

\* the state n Euler-forward steps after X
RECURSIVE EulerSteps(_, _, _)
EulerSteps(X, a, n) ==
    IF n = 0 THEN X ELSE EulerSteps(GCMUpdate(X, a.F, a.dt, a.param), a, n - 1)

\* C14: every row s that a GCM run recorded holds the state exactly s + 1
\* Euler-forward steps after X0, with time[s] = dt * (s + 1); row 0 is
\* therefore the state one step after X0, never X0 itself, and the time of
\* the last valid sample is dt * m for m valid samples.
C14_RowIsStateAfterNPlusOneSteps ==
    \A r \in Results :
        r.args.fn = "GCM" =>
            /\ \A s \in Slots(r) :
                  s < r.m => /\ r.hist[s] = EulerSteps(r.args.X0, r.args, s + 1)
                             /\ r.time[s] = r.args.dt * (s + 1)
            /\ r.m >= 1 => r.time[r.m - 1] = r.args.dt * r.m

C14_Witness ==
    \E r \in Results :
        /\ r.args.fn = "GCM" /\ r.args.dt = 1 /\ r.m >= 3
        /\ r.hist[0] # r.args.X0
        /\ r.hist[2] # r.hist[1] /\ r.hist[1] # r.hist[0]

\* C15 (as claimed): for dt > 0 the time array a call returns is strictly
\* increasing over all its nt entries, whether or not the guard tripped.
C15_TimeStrictlyIncreasing ==
    \A r \in Results :
        r.args.dt > 0 =>
            \A s \in Slots(r) : s >= 1 => r.time[s - 1] < r.time[s]

SameCallButStoch(a, g) ==
    /\ a.fn = "GCM" /\ g.fn = "GCMs" /\ g.stoch = 0
    /\ a.X0 = g.X0 /\ a.F = g.F /\ a.dt = g.dt /\ a.nt = g.nt /\ a.param = g.param

\* C16: GCMs with stoch = 0 returns the hist and time (and stops at the step)
\* that GCM returns for the same X0, F, dt, nt and param, whatever the
\* generator draws (for phi in [-1, 1], where the square root is defined), and
\* its red noise ek is zero at every step.
C16_StochZeroIsGCM ==
    /\ (args.fn = "GCMs" /\ args.stoch = 0) => loc.ek = Uniform(0)
    /\ \A r1, r2 \in Results :
          SameCallButStoch(r1.args, r2.args) =>
              /\ r1.hist = r2.hist
              /\ r1.time = r2.time
              /\ r1.m = r2.m
              /\ r1.tripped = r2.tripped

C16_Witness ==
    /\ Len(out) = 2
    /\ SameCallButStoch(out[1].args, out[2].args)
    /\ out[2].args.phi = 0
    /\ out[2].m >= 2
    /\ \E k \in Idx : Randn(out[2].args.seed)[k] # 0

SameCall(a, g) ==
    /\ a.fn = g.fn /\ a.X0 = g.X0 /\ a.F = g.F /\ a.dt = g.dt /\ a.nt = g.nt
    /\ a.param = g.param /\ a.stoch = g.stoch /\ a.phi = g.phi

\* the steps a returned run executed, and the numbers it drew
Executed(r) == r.m + (IF r.tripped THEN 1 ELSE 0)
Draws(r) == IF r.args.fn = "GCMs" THEN K * Executed(r) ELSE 0

\* C17 (as claimed): a run returns the same trajectory whether or not another
\* run was executed before it: of two successive runs of the same function
\* given the same X0, F, dt, nt and param (and stoch, phi), with nothing but
\* the first run between the seeding and the second, the second returns what
\* the first returned.
C17_IndependentOfOtherRuns ==
    ( /\ Len(out) = 2
      /\ SameCall(out[1].args, out[2].args)
      /\ out[2].args.seed = RngAdvance(out[1].args.seed, Draws(out[1])) ) =>
        /\ out[1].hist = out[2].hist
        /\ out[1].time = out[2].time
        /\ out[1].m = out[2].m

NbBlock(i, d) ==
    LET j == (i % J) + d
        jj == IF j < 0 THEN j + J ELSE IF j > J - 1 THEN j - J ELSE j
    IN (i \div J) * J + (IF jj > J - 1 THEN jj - J ELSE jj)

NbFlat(i, d) ==
    LET t == i + d
    IN IF t < 0 THEN t + J * K ELSE IF t > J * K - 1 THEN t - J * K ELSE t

\* the fast state one step of size dt after (X0, Y0), with neighbour d of
\* flat index i found by nb
FastAfterOneStep(r, nb(_, _), i) ==
    r.Y0[i] + r.dt * ((0 - r.c * r.b * r.Y0[nb(i, 1)])
                          * (r.Y0[nb(i, 2)] - r.Y0[nb(i, -1)])
                      - r.c * r.Y0[i] + ((r.h * r.c) \div r.b) * r.X0[i \div J])

OneStepSampled(r) == r.status = "ok" /\ r.si = r.dt /\ r.m >= 2

SameInputs ==
    /\ tr.status # "none" /\ fr.status # "none"
    /\ tr.chained
    /\ fr.X0 = W.setX /\ fr.Y0 = W.setY
    /\ fr.si = tr.si /\ fr.nt = tr.T \div tr.si
    /\ fr.F = W.F /\ fr.h = W.h /\ fr.b = W.b /\ fr.c = W.c /\ fr.dt = W.dt

Pred(k) == IF k = 0 THEN K - 1 ELSE k - 1
Succ(k) == IF k = K - 1 THEN 0 ELSE k + 1

\* C7: the first sample of a GCM run is X0 advanced with the stencil read
\* around the circle: the neighbour below index 0 is index K-1 and the
\* neighbour above index K-1 is index 0, for every k.
C7_SlowStencilCircular ==
    (pc \in {"loop", "break"} /\ args.fn = "GCM" /\ loc.n >= 1) =>
        \A k \in Idx :
            loc.hist[0][k] =
                args.X0[k]
                + args.dt * ((0 - args.X0[Pred(k)])
                                * (args.X0[Pred(Pred(k))] - args.X0[Succ(k)])
                             - args.X0[k] + args.F
                             - Horner(args.param, args.X0[k], 0))

C7_Witness ==
    /\ pc = "loop" /\ args.fn = "GCM" /\ loc.n >= 1
    /\ args.X0 = Ramp /\ args.dt = 1
    /\ loc.hist[0][0] # loc.hist[0][K - 1]

\* C10: while a call runs and after it returns, the caller's array given as
\* X0 and the caller's list given as param hold what they held at the call,
\* the local X is never the caller's array, and every call of the cell
\* started from the same W.X.
C10_InputsUntouched ==
    /\ args.fn # "none" =>
          /\ heap.WX = args.X0
          /\ heap.p = args.param
          /\ (pc \in {"loop", "break"} => loc.X # "WX")
    /\ \A r1, r2 \in Results : r1.args.X0 = r2.args.X0 /\ r1.args.X0 = heap.WX

C10_Witness ==
    /\ Len(out) = 2
    /\ out[1].m >= 1 /\ out[2].m >= 1
    /\ out[1].hist[0] # out[1].args.X0
    /\ out[2].args.X0 = heap.WX

=============================================================================
